---- MODULE Spec2Model ----
(***************************************************************************)
(* Ray / primitive intersection of mjx/_src/ray.py.                        *)
(*                                                                         *)
(* ray() is a pure function of the model m, the data d and the call's      *)
(* arguments.  The state machine below walks through one call: the         *)
(* visibility filter and the local-frame mapping (Prepare), the per-type   *)
(* dispatch loop (Dispatch, one step per entry of _RAY_FUNC) and the       *)
(* reduction (Reduce).                                                     *)
(*                                                                         *)
(* Floating point numbers are modelled as a fixed-point grid of unit       *)
(* 1/SCALE with the IEEE special values +inf, -inf and NaN.  Sums and      *)
(* products of grid values that are whole numbers are exact; sqrt and      *)
(* division round toward zero onto the grid.  Zero has no sign: no result  *)
(* of the code depends on the sign of a zero (every quotient by zero is    *)
(* masked by a validity test that is false for +inf, -inf and NaN alike).  *)
(***************************************************************************)
EXTENDS Integers, Sequences, FiniteSets, TLC

\* ---------------------------------------------------------------- bounds
FracBits == 4
MaxCoord == 3
MaxSize == 1
MaxGeom == 2

\* ------------------------------------------------------- program constants
\* mujoco.mjNGROUP
mjNGROUP == 6
\* mujoco.mjMINVAL is 1e-15, far below the grid's resolution: on the grid
\* "v < mjMINVAL" can only mean "v < one grid unit", so it is one raw unit.
mjMINVAL == 1

SCALE == 2 ^ FracBits

\* ------------------------------------------------------------ float model
Fin(raw) == [k |-> "fin", v |-> raw]
PInf == [k |-> "inf", v |-> 1]
NInf == [k |-> "inf", v |-> -1]
NaN == [k |-> "nan", v |-> 0]
ToF(i) == Fin(i * SCALE)

IsNaN(x) == x.k = "nan"
IsInf(x) == x.k = "inf"
IsFin(x) == x.k = "fin"
Sgn(n) == IF n > 0 THEN 1 ELSE IF n < 0 THEN -1 ELSE 0
AbsI(n) == IF n < 0 THEN -n ELSE n
\* quotient rounded toward zero
Trunc(n, q) == Sgn(n) * Sgn(q) * (AbsI(n) \div AbsI(q))

RECURSIVE ISqrtIter(_, _, _)
ISqrtIter(n, lo, hi) ==
  IF lo >= hi THEN lo
  ELSE LET mid == (lo + hi + 1) \div 2
       IN IF mid * mid <= n THEN ISqrtIter(n, mid, hi)
          ELSE ISqrtIter(n, lo, mid - 1)
\* floor of the square root of a natural number below 2^30
ISqrt(n) == ISqrtIter(n, 0, IF n < 32767 THEN n ELSE 32767)

FNeg(x) == IF IsNaN(x) THEN NaN ELSE [k |-> x.k, v |-> -x.v]
FAbs(x) == IF IsNaN(x) THEN NaN ELSE [k |-> x.k, v |-> AbsI(x.v)]
FAdd(x, y) ==
  IF IsNaN(x) \/ IsNaN(y) THEN NaN
  ELSE IF IsInf(x) THEN (IF IsInf(y) /\ y.v # x.v THEN NaN ELSE x)
  ELSE IF IsInf(y) THEN y
  ELSE Fin(x.v + y.v)
FSub(x, y) == FAdd(x, FNeg(y))
FMul(x, y) ==
  IF IsNaN(x) \/ IsNaN(y) THEN NaN
  ELSE IF IsInf(x) \/ IsInf(y)
       THEN (IF x.v = 0 \/ y.v = 0 THEN NaN
             ELSE [k |-> "inf", v |-> Sgn(x.v) * Sgn(y.v)])
  ELSE Fin(Trunc(x.v * y.v, SCALE))
FDiv(x, y) ==
  IF IsNaN(x) \/ IsNaN(y) THEN NaN
  ELSE IF IsInf(x)
       THEN (IF IsInf(y) THEN NaN
             ELSE [k |-> "inf", v |-> x.v * (IF y.v < 0 THEN -1 ELSE 1)])
  ELSE IF IsInf(y) THEN Fin(0)
  ELSE IF y.v = 0
       THEN (IF x.v = 0 THEN NaN ELSE [k |-> "inf", v |-> Sgn(x.v)])
  ELSE Fin(Trunc(x.v * SCALE, y.v))
FSqrt(x) ==
  IF IsNaN(x) THEN NaN
  ELSE IF x.v < 0 THEN NaN
  ELSE IF IsInf(x) THEN PInf
  ELSE Fin(ISqrt(x.v * SCALE))

\* comparisons: every comparison with NaN is false
FLt(x, y) ==
  /\ ~IsNaN(x) /\ ~IsNaN(y)
  /\ IF IsInf(x) THEN x.v < 0 /\ ~(IsInf(y) /\ y.v < 0)
     ELSE IF IsInf(y) THEN y.v > 0
     ELSE x.v < y.v
FLe(x, y) == ~IsNaN(x) /\ ~IsNaN(y) /\ ~FLt(y, x)
FGe(x, y) == FLe(y, x)

Dot2(u, w) == FAdd(FMul(u[1], w[1]), FMul(u[2], w[2]))
Dot3(u, w) == FAdd(Dot2(u, w), FMul(u[3], w[3]))
VSub(u, w) == <<FSub(u[1], w[1]), FSub(u[2], w[2]), FSub(u[3], w[3])>>
VecF(u) == <<ToF(u[1]), ToF(u[2]), ToF(u[3])>>

\* ---------------------------------------------------------------- solvers
\* _ray_quad without the "det < mjMINVAL" test
ray_quad_no_det_test(a, b, c) ==
  LET det == FSub(FMul(b, b), FMul(a, c))
      det_2 == FSqrt(det)
      r0 == FDiv(FSub(FNeg(b), det_2), a)
      r1 == FDiv(FAdd(FNeg(b), det_2), a)
  IN <<IF FLt(r0, Fin(0)) THEN PInf ELSE r0, IF FLt(r1, Fin(0)) THEN PInf ELSE r1>>

\* _ray_quad: the two solutions of a*x^2 + 2*b*x + c = 0
ray_quad(a, b, c) ==
  LET det == FSub(FMul(b, b), FMul(a, c))
      det_2 == FSqrt(det)
      r0 == FDiv(FSub(FNeg(b), det_2), a)
      r1 == FDiv(FAdd(FNeg(b), det_2), a)
      x0 == IF FLt(det, Fin(mjMINVAL)) \/ FLt(r0, Fin(0)) THEN PInf ELSE r0
      x1 == IF FLt(det, Fin(mjMINVAL)) \/ FLt(r1, Fin(0)) THEN PInf ELSE r1
  IN <<x0, x1>>

\* _ray_plane
ray_plane(size, pnt, vec) ==
  LET x == FDiv(FNeg(pnt[3]), vec[3])
      p1 == FAdd(pnt[1], FMul(x, vec[1]))
      p2 == FAdd(pnt[2], FMul(x, vec[2]))
      valid == /\ FLe(vec[3], Fin(-mjMINVAL))
               /\ FGe(x, Fin(0))
               /\ (FLe(size[1], Fin(0)) \/ FLe(FAbs(p1), size[1]))
               /\ (FLe(size[2], Fin(0)) \/ FLe(FAbs(p2), size[2]))
  IN IF valid THEN x ELSE PInf

\* _ray_sphere
ray_sphere(size, pnt, vec) ==
  LET q == ray_quad(Dot3(vec, vec), Dot3(vec, pnt),
                    FSub(Dot3(pnt, pnt), FMul(size[1], size[1])))
  IN IF IsInf(q[1]) THEN q[2] ELSE q[1]

\* the top-cap update without the hemisphere test
CapUpdateTopAnyHalf(size, pnt, vec, root, x) == IF FLt(root, x) THEN root ELSE x

\* one "x = jp.where(<hemisphere test> & (root < x), root, x)" line
CapUpdateTop(size, pnt, vec, root, x) ==
  IF FGe(FAdd(pnt[3], FMul(root, vec[3])), size[2]) /\ FLt(root, x)
  THEN root ELSE x
CapUpdateBottom(size, pnt, vec, root, x) ==
  IF FLe(FAdd(pnt[3], FMul(root, vec[3])), FNeg(size[2])) /\ FLt(root, x)
  THEN root ELSE x

\* the round side of the capsule, kept only between the flat sides
CapsuleSide(size, pnt, vec) ==
  LET a == Dot2(vec, vec)
      b == Dot2(vec, pnt)
      c == FSub(Dot2(pnt, pnt), FMul(size[1], size[1]))
      q == ray_quad(a, b, c)
      x == IF IsInf(q[1]) THEN q[2] ELSE q[1]
  IN IF FLe(FAbs(FAdd(pnt[3], FMul(x, vec[3]))), size[2]) THEN x ELSE PInf

\* the two roots against the cap sphere centred at (0, 0, sign * size[1])
CapRoots(size, pnt, vec, sign) ==
  LET dif == <<pnt[1], pnt[2], FSub(pnt[3], FMul(ToF(sign), size[2]))>>
  IN ray_quad(Dot3(vec, vec), Dot3(vec, dif),
              FSub(Dot3(dif, dif), FMul(size[1], size[1])))

\* _ray_capsule
ray_capsule(size, pnt, vec) ==
  LET xs == CapsuleSide(size, pnt, vec)
      t == CapRoots(size, pnt, vec, 1)
      xt0 == CapUpdateTop(size, pnt, vec, t[1], xs)
      xt1 == CapUpdateTop(size, pnt, vec, t[2], xt0)
      bt == CapRoots(size, pnt, vec, -1)
      xb0 == CapUpdateBottom(size, pnt, vec, bt[1], xt1)
      xb1 == CapUpdateBottom(size, pnt, vec, bt[2], xb0)
  IN xb1

\* iface of _ray_box (1-based axes): the two other axes of each of the 6 faces
iface == << <<2, 3>>, <<1, 3>>, <<1, 2>>, <<2, 3>>, <<1, 3>>, <<1, 2>> >>

\* the solution for face f (1..3: side +1, 4..6: side -1)
BoxFaceX(size, pnt, vec, f) ==
  LET i == IF f <= 3 THEN f ELSE f - 3
      s == IF f <= 3 THEN size[i] ELSE FNeg(size[i])
  IN FDiv(FSub(s, pnt[i]), vec[i])

\* valid[f] of _ray_box
BoxFaceValid(size, pnt, vec, f) ==
  LET x == BoxFaceX(size, pnt, vec, f)
      p0 == FAdd(pnt[iface[f][1]], FMul(x, vec[iface[f][1]]))
      p1 == FAdd(pnt[iface[f][2]], FMul(x, vec[iface[f][2]]))
  IN FLe(FAbs(p0), size[iface[f][1]]) /\ FLe(FAbs(p1), size[iface[f][2]])

\* jp.min of a non-empty sequence without NaN entries
RECURSIVE FMinSeq(_)
FMinSeq(s) ==
  IF Len(s) = 1 THEN s[1]
  ELSE LET r == FMinSeq(Tail(s)) IN IF FLt(r, s[1]) THEN r ELSE s[1]

\* _ray_box
ray_box(size, pnt, vec) ==
  FMinSeq([f \in 1..6 |->
            IF BoxFaceValid(size, pnt, vec, f)
            THEN BoxFaceX(size, pnt, vec, f) ELSE PInf])

\* _RAY_FUNC, in the dict's insertion order.  The GeomType.MESH entry is
\* commented out (line 147): _ray_mesh, which raises NotImplementedError, is
\* never called, and a mesh geom matches no iteration of the loop.
RAY_FUNC_ORDER == <<"PLANE", "SPHERE", "CAPSULE", "BOX">>
RAY_FUNC(gtype, size, pnt, vec) ==
  CASE gtype = "PLANE" -> ray_plane(size, pnt, vec)
    [] gtype = "SPHERE" -> ray_sphere(size, pnt, vec)
    [] gtype = "CAPSULE" -> ray_capsule(size, pnt, vec)
    [] gtype = "BOX" -> ray_box(size, pnt, vec)

\* ------------------------------------------------------------------ state
VARIABLES
  m,            \* Model: the per-geom arrays, body_weldid, mat_rgba
  d,            \* Data: geom_xpos, geom_xmat
  arg,          \* the call's arguments, as the caller passed them
  pnt, vec,     \* the local names pnt and vec of ray(): first the call's
                \* (3,) arrays, held as one row; after line 195 the (k,3)
                \* arrays of the last dispatched type
  geom_filter,  \* geom id -> BOOLEAN
  geom_pnts,    \* geom id -> local ray origin
  geom_vecs,    \* geom id -> local ray direction
  dists, ids,   \* the lists of per-type arrays, held concatenated
  it,           \* position of the loop over _RAY_FUNC.items(): 1..4, 5 = over
  pc,           \* "start", "loop", "done" (returned), "raised"
  ret,          \* the returned pair
  err           \* the exception raised, "" for none

vars == <<m, d, arg, pnt, vec, geom_filter, geom_pnts, geom_vecs,
          dists, ids, it, pc, ret, err>>

GeomIds == 0 .. (m.ngeom - 1)
NoRet == [dist |-> NaN, id |-> -2]

\* ----------------------------------------------------------------- ray()
\* np.clip(m.geom_group, 0, mujoco.mjNGROUP), one element
ClipGroup(g) == IF g < 0 THEN 0 ELSE IF g > mjNGROUP THEN mjNGROUP ELSE g

\* numpy index into an array of length n: negative indices count from the end
Wrap(i, n) == IF i < 0 THEN i + n ELSE i

\* the filter without the bodyexclude test
BaseFilterNoExclude(i) ==
  /\ (m.geom_matid[i] # -1 \/ m.geom_rgba[i] # 0)
  /\ (m.geom_matid[i] = -1 \/ m.mat_rgba[Wrap(m.geom_matid[i], m.nmat)] # 0)
  /\ (arg.flg_static \/ m.body_weldid[m.geom_bodyid[i]] # 0)

\* lines 177-180: the filter without the group mask
BaseFilter(i) ==
  /\ m.geom_bodyid[i] # arg.bodyexclude
  /\ (m.geom_matid[i] # -1 \/ m.geom_rgba[i] # 0)
  /\ (m.geom_matid[i] = -1 \/ m.mat_rgba[Wrap(m.geom_matid[i], m.nmat)] # 0)
  /\ (arg.flg_static \/ m.body_weldid[m.geom_bodyid[i]] # 0)

\* line 183 raises IndexError when an index is outside the mask
GroupIndexError ==
  /\ Len(arg.geomgroup) # 0
  /\ \E i \in GeomIds : ClipGroup(m.geom_group[i]) >= Len(arg.geomgroup)

\* lines 181-183: geomgroup[np.clip(...)], a 0-based index into the mask
GroupFilter(i) ==
  Len(arg.geomgroup) = 0 \/ arg.geomgroup[ClipGroup(m.geom_group[i]) + 1]

\* x.T @ v for a 3x3 matrix x given by rows
MatTVec(x, v) ==
  [j \in 1..3 |-> FAdd(FAdd(FMul(ToF(x[1][j]), v[1]), FMul(ToF(x[2][j]), v[2])),
                       FMul(ToF(x[3][j]), v[3]))]

\* line 186, one geom: x.T @ (pnt - y)
MapPnt(i) == MatTVec(d.geom_xmat[i], VSub(pnt[1], VecF(d.geom_xpos[i])))
\* line 187, one geom: x.T @ vec
MapVec(i) == MatTVec(d.geom_xmat[i], vec[1])

\* lines 176-187
Prepare ==
  /\ pc = "start"
  /\ \/ /\ GroupIndexError
        /\ pc' = "raised"
        /\ err' = "IndexError"
        /\ UNCHANGED <<geom_filter, geom_pnts, geom_vecs, it>>
     \/ /\ ~GroupIndexError
        /\ geom_filter' = [i \in GeomIds |-> BaseFilter(i) /\ GroupFilter(i)]
        /\ geom_pnts' = [i \in GeomIds |-> MapPnt(i)]
        /\ geom_vecs' = [i \in GeomIds |-> MapVec(i)]
        /\ pc' = "loop"
        /\ it' = 1
        /\ err' = err
  /\ UNCHANGED <<m, d, arg, pnt, vec, dists, ids, ret>>

\* the ascending sequence of the members of a set of integers
RECURSIVE Ascending(_)
Ascending(S) ==
  IF S = {} THEN <<>>
  ELSE LET lo == CHOOSE x \in S : \A y \in S : x <= y
       IN <<lo>> \o Ascending(S \ {lo})

\* line 190: np.nonzero(geom_filter & (m.geom_type == geom_type))
Selected(gtype) ==
  Ascending({i \in GeomIds : geom_filter[i] /\ m.geom_type[i] = gtype})

\* the local origin mapped anew from whatever the name pnt holds now
LoopPntRemapped(i) == MapPnt(i)

\* line 195: the rows geom_pnts[id_], geom_vecs[id_] handed to the solver
LoopPnt(i) == geom_pnts[i]
LoopVec(i) == geom_vecs[i]

\* lines 189-197: one iteration of the loop
Dispatch ==
  /\ pc = "loop"
  /\ it <= Len(RAY_FUNC_ORDER)
  /\ LET gtype == RAY_FUNC_ORDER[it]
         id_ == Selected(gtype)
     IN \/ /\ Len(id_) = 0
           /\ UNCHANGED <<pnt, vec, dists, ids>>
        \/ /\ Len(id_) # 0
           /\ pnt' = [k \in 1..Len(id_) |-> LoopPnt(id_[k])]
           /\ vec' = [k \in 1..Len(id_) |-> LoopVec(id_[k])]
           /\ dists' = dists \o [k \in 1..Len(id_) |->
                          RAY_FUNC(gtype, VecF(m.geom_size[id_[k]]),
                                   LoopPnt(id_[k]), LoopVec(id_[k]))]
           /\ ids' = ids \o id_
  /\ it' = it + 1
  /\ UNCHANGED <<m, d, arg, geom_filter, geom_pnts, geom_vecs, pc, ret, err>>

\* argmax in place of argmin
ArgMax(s) ==
  CHOOSE k \in 1..Len(s) :
    /\ \A j \in 1..Len(s) : ~FLt(s[k], s[j])
    /\ \A j \in 1..(k - 1) : FLt(s[j], s[k])
\* the last position holding the minimum in place of the first
ArgMinLast(s) ==
  CHOOSE k \in 1..Len(s) :
    /\ \A j \in 1..Len(s) : ~FLt(s[j], s[k])
    /\ \A j \in (k + 1)..Len(s) : FLt(s[k], s[j])

\* jp.argmin as a 1-based position: the first NaN if there is one, else the
\* first position holding the minimum
ArgMin(s) ==
  IF \E k \in 1..Len(s) : IsNaN(s[k])
  THEN CHOOSE k \in 1..Len(s) :
         IsNaN(s[k]) /\ \A j \in 1..(k - 1) : ~IsNaN(s[j])
  ELSE CHOOSE k \in 1..Len(s) :
         /\ \A j \in 1..Len(s) : ~FLt(s[j], s[k])
         /\ \A j \in 1..(k - 1) : FLt(s[k], s[j])

\* lines 199-208
Reduce ==
  /\ pc = "loop"
  /\ it > Len(RAY_FUNC_ORDER)
  /\ \/ /\ Len(ids) = 0
        /\ ret' = [dist |-> ToF(-1), id |-> -1]
     \/ /\ Len(ids) # 0
        /\ LET min_id == ArgMin(dists)
           IN ret' = IF IsInf(dists[min_id])
                     THEN [dist |-> ToF(-1), id |-> -1]
                     ELSE [dist |-> dists[min_id], id |-> ids[min_id]]
  /\ pc' = "done"
  /\ UNCHANGED <<m, d, arg, pnt, vec, geom_filter, geom_pnts, geom_vecs,
                 dists, ids, it, err>>

Next == Prepare \/ Dispatch \/ Reduce

\* ----------------------------------------------------------------- inputs
RotI == << <<1, 0, 0>>, <<0, 1, 0>>, <<0, 0, 1>> >>
\* a quarter turn about x: local y is world z, local z is world -y
RotX == << <<1, 0, 0>>, <<0, 0, -1>>, <<0, 1, 0>> >>
Origin == <<0, 0, 0>>
Raised == <<0, 0, 2>>
Far == MaxCoord + 1

Geom(gtype, size, body, mat, alpha, group, pos, rot) ==
  [type |-> gtype, size |-> size, bodyid |-> body, matid |-> mat,
   alpha |-> alpha, group |-> group, xpos |-> pos, xmat |-> rot]

\* a geom of a dynamic body, without material, opaque, in group 0
Plain(gtype, size, pos, rot) == Geom(gtype, size, 2, -1, 1, 0, pos, rot)

\* bodies: 0 the world, 1 welded to the world (static), 2 free (dynamic);
\* materials: 0 opaque, 1 fully transparent
MkModel(gs) ==
  [ngeom |-> Len(gs),
   geom_type |-> [i \in 0..(Len(gs) - 1) |-> gs[i + 1].type],
   geom_size |-> [i \in 0..(Len(gs) - 1) |-> gs[i + 1].size],
   geom_bodyid |-> [i \in 0..(Len(gs) - 1) |-> gs[i + 1].bodyid],
   geom_matid |-> [i \in 0..(Len(gs) - 1) |-> gs[i + 1].matid],
   geom_rgba |-> [i \in 0..(Len(gs) - 1) |-> gs[i + 1].alpha],
   geom_group |-> [i \in 0..(Len(gs) - 1) |-> gs[i + 1].group],
   body_weldid |-> [b \in 0..2 |-> IF b = 2 THEN 2 ELSE 0],
   nmat |-> 2,
   mat_rgba |-> [k \in 0..1 |-> IF k = 0 THEN 1 ELSE 0]]
MkData(gs) ==
  [geom_xpos |-> [i \in 0..(Len(gs) - 1) |-> gs[i + 1].xpos],
   geom_xmat |-> [i \in 0..(Len(gs) - 1) |-> gs[i + 1].xmat]]

Call(p, v, mask, static, exclude) ==
  [pnt |-> p, vec |-> v, geomgroup |-> mask, flg_static |-> static,
   bodyexclude |-> exclude]
\* the defaults of ray(): geomgroup=(), flg_static=True, bodyexclude=-1
DefaultCall(p, v) == Call(p, v, <<>>, TRUE, -1)

SeqsUpTo(S, n) == UNION {[1..k -> S] : k \in 1..n}

GeomTypes == {"PLANE", "SPHERE", "CAPSULE", "BOX", "MESH"}
SolverTypes == {"PLANE", "SPHERE", "CAPSULE", "BOX"}

\* scenes of up to MaxGeom unit-size geoms of every type, placed at the
\* origin or raised and turned
SceneGeoms ==
  {Plain(t, <<1, 1, 1>>, pl[1], pl[2]) :
     t \in GeomTypes, pl \in {<<Origin, RotI>>, <<Raised, RotX>>}}
SceneRays ==
  {DefaultCall(p, v) :
     p \in {<<0, 0, Far>>, <<0, -Far, 2>>},
     v \in {<<0, 0, -1>>, <<0, 0, 1>>, <<0, 1, 0>>, <<0, 1, -1>>}}

\* a near sphere and a far box under the ray from above
Near(body, mat, alpha, group) ==
  Geom("SPHERE", <<1, 1, 1>>, body, mat, alpha, group, Raised, RotX)
Behind(body, mat, alpha, group) ==
  Geom("BOX", <<1, 1, 1>>, body, mat, alpha, group, Origin, RotI)
Down == <<0, 0, -1>>

\* every combination of body, material and alpha, for every flg_static and
\* bodyexclude
FilterScenes ==
  {<<Near(a[1], a[2], a[3], 0), Behind(b[1], b[2], b[3], 0)>> :
     a \in (0..2) \X (-1..1) \X (0..1), b \in (0..2) \X (-1..1) \X (0..1)}
FilterCalls ==
  {Call(<<0, 0, Far>>, Down, <<>>, s, x) : s \in BOOLEAN, x \in {-1, 1, 2}}

\* every group tag from below 0 to above mjNGROUP, for several masks
GroupTags == (-1) .. (mjNGROUP + 1)
GroupScenes ==
  {<<Near(2, -1, 1, g), Behind(2, -1, 1, h)>> : g \in GroupTags, h \in GroupTags}
GroupMasks ==
  {<<>>,
   [g \in 1..mjNGROUP |-> TRUE],
   [g \in 1..mjNGROUP |-> FALSE],
   [g \in 1..mjNGROUP |-> g # 1],
   [g \in 1..mjNGROUP |-> g = mjNGROUP]}
GroupCalls == {Call(<<0, 0, Far>>, Down, k, TRUE, -1) : k \in GroupMasks}

\* one primitive in its own frame, of every size from 0 to MaxSize
SolverSizes(t) ==
  CASE t = "SPHERE" -> {<<r, 0, 0>> : r \in 0..MaxSize}
    [] t = "CAPSULE" -> {<<r, h, 0>> : r \in 0..MaxSize, h \in 0..MaxSize}
    [] t = "PLANE" -> {<<a, b, 0>> : a \in 0..MaxSize, b \in 0..MaxSize}
    [] t = "BOX" -> {<<a, a, b>> : a \in 0..MaxSize, b \in 0..MaxSize}
SolverScenes ==
  UNION {{<<Plain(t, sz, Origin, RotI)>> : sz \in SolverSizes(t)} :
           t \in SolverTypes}
SolverRays ==
  {DefaultCall(p, v) :
     p \in (0..1) \X {0} \X ((-MaxCoord)..MaxCoord),
     v \in (-1..1) \X (0..1) \X (-1..1)}

Start(gs, call) ==
  /\ m = MkModel(gs)
  /\ d = MkData(gs)
  /\ arg = call
  /\ pnt = <<VecF(call.pnt)>>
  /\ vec = <<VecF(call.vec)>>
  /\ geom_filter = <<>>
  /\ geom_pnts = <<>>
  /\ geom_vecs = <<>>
  /\ dists = <<>>
  /\ ids = <<>>
  /\ it = 0
  /\ pc = "start"
  /\ ret = NoRet
  /\ err = ""

Init ==
  \/ \E gs \in SeqsUpTo(SceneGeoms, MaxGeom), call \in SceneRays : Start(gs, call)
  \/ \E gs \in FilterScenes, call \in FilterCalls : Start(gs, call)
  \/ \E gs \in GroupScenes, call \in GroupCalls : Start(gs, call)
  \/ \E gs \in SolverScenes, call \in SolverRays : Start(gs, call)

Spec == Init /\ [][Next]_vars

\* ------------------------------------------------- vocabulary of the claims
Returned == pc = "done"
NoHit == [dist |-> ToF(-1), id |-> -1]
HasSolver(i) == m.geom_type[i] \in SolverTypes

\* the caller's world ray in the frame of geom i, from the arguments alone
FramePnt(i) ==
  MatTVec(d.geom_xmat[i], VSub(VecF(arg.pnt), VecF(d.geom_xpos[i])))
FrameVec(i) == MatTVec(d.geom_xmat[i], VecF(arg.vec))
\* the distance of geom i as if it were the only geom of the scene
Alone(i) ==
  RAY_FUNC(m.geom_type[i], VecF(m.geom_size[i]), FramePnt(i), FrameVec(i))

\* the geoms handed to a solver
Dispatched == {ids[k] : k \in 1..Len(ids)}
\* filter-passing geoms of a type that has a solver
Candidates == {i \in GeomIds : geom_filter[i] /\ HasSolver(i)}
Hits == {i \in Candidates : ~IsInf(Alone(i))}

\* ------------------------------------------------------------------ claims
\* C1: in a scene of plane, sphere, capsule and box geoms only, ray() returns
\* either (-1, -1) or a distance >= 0 together with the id of a geom that
\* passed the filter; never a negative distance other than -1, never one of
\* distance and id set without the other.
C1_ResultWellFormed ==
  (Returned /\ \A i \in GeomIds : HasSolver(i)) =>
    \/ ret = NoHit
    \/ /\ FGe(ret.dist, Fin(0))
       /\ ret.id \in GeomIds
       /\ geom_filter[ret.id]

\* C2: when some eligible geom has a hit, ray() returns the minimum solver
\* distance over all eligible geoms of all supported types and the id of a
\* geom whose solver distance is that minimum; a geom without a hit or one
\* the filter rejected is never returned.
C2_MinimumOverEligible ==
  (Returned /\ Hits # {}) =>
    /\ ret.id \in Hits
    /\ ret.dist = Alone(ret.id)
    /\ \A j \in Candidates : ~FLt(Alone(j), ret.dist)

\* C2 witness: geoms of two types are hit at different distances and the
\* nearer one, dispatched later and of the higher id, is returned.
C2_Witness ==
  /\ Returned
  /\ \E i \in Hits, j \in Hits :
       /\ m.geom_type[j] = "SPHERE" /\ m.geom_type[i] = "BOX"
       /\ j < i
       /\ FLt(Alone(i), Alone(j))
       /\ ret.id = i

\* ---- exact geometry on the integer inputs, for the claims about misses
CrossI(u, w) ==
  <<u[2] * w[3] - u[3] * w[2], u[3] * w[1] - u[1] * w[3],
    u[1] * w[2] - u[2] * w[1]>>
DotI(u, w) == u[1] * w[1] + u[2] * w[2] + u[3] * w[3]
MatTVecI(x, v) ==
  [j \in 1..3 |-> x[1][j] * v[1] + x[2][j] * v[2] + x[3][j] * v[3]]
FramePntI(i) ==
  MatTVecI(d.geom_xmat[i], [j \in 1..3 |-> arg.pnt[j] - d.geom_xpos[i][j]])
FrameVecI(i) == MatTVecI(d.geom_xmat[i], arg.vec)

\* no point p + x*v, x >= 0, lies in the ball of radius r about the centre
\* of the frame (hence none on any surface the ball encloses)
ClearOfBall(p, v, r) ==
  LET a == DotI(v, v)
      b == DotI(v, p)
      c == DotI(p, p) - r * r
  IN c > 0 /\ (b > 0 \/ b * b - a * c < 0)

\* no point p + x*v, x >= 0, lies on the surface of the box of half-extents s
ClearOfBox(p, v, s) ==
  /\ ~(/\ \A j \in 1..3 : AbsI(p[j]) <= s[j]
       /\ \E j \in 1..3 : AbsI(p[j]) = s[j])
  /\ \A i \in 1..3, side \in {1, -1} :
       v[i] # 0 =>
         LET n == side * s[i] - p[i]
             q == v[i]
         IN \/ n * q < 0
            \/ \E j \in (1..3) \ {i} : AbsI(p[j] * q + n * v[j]) > s[j] * AbsI(q)

\* no point p + x*v, x >= 0, lies on the plane z = 0 of the frame
ClearOfPlane(p, v) ==
  IF v[3] = 0 THEN p[3] # 0 ELSE (-p[3]) * v[3] < 0

\* the ray has no point on the surface of geom i (sufficient conditions,
\* exact for sphere and box)
Misses(i) ==
  LET p == FramePntI(i)
      v == FrameVecI(i)
      s == m.geom_size[i]
  IN CASE m.geom_type[i] = "PLANE" -> ClearOfPlane(p, v)
       [] m.geom_type[i] = "SPHERE" -> ClearOfBall(p, v, s[1])
       [] m.geom_type[i] = "CAPSULE" -> ClearOfBall(p, v, s[1] + s[2])
       [] m.geom_type[i] = "BOX" -> ClearOfBox(p, v, s)

\* C3: a ray that misses every eligible geom (also one pointing away from
\* all of them, also when no geom is eligible) gets (-1, -1).
C3_MissReturnsNoHit ==
  (Returned /\ \A i \in Candidates : Misses(i)) => ret = NoHit

\* the visibility rule of a geom, as the claims state it: not on the
\* excluded body, not fully transparent, static allowed or body not static,
\* and (with a mask) the group, clamped into 0..mjNGROUP-1, enabled
ClampGroup(g) == IF g < 0 THEN 0 ELSE IF g > mjNGROUP - 1 THEN mjNGROUP - 1 ELSE g
Eligible(i) ==
  /\ m.geom_bodyid[i] # arg.bodyexclude
  /\ \/ m.geom_matid[i] = -1 /\ m.geom_rgba[i] # 0
     \/ m.geom_matid[i] # -1 /\ m.mat_rgba[m.geom_matid[i]] # 0
  /\ arg.flg_static \/ m.body_weldid[m.geom_bodyid[i]] # 0
  /\ Len(arg.geomgroup) = 0 \/ arg.geomgroup[ClampGroup(m.geom_group[i]) + 1]
Finished == pc \in {"done", "raised"}
Filtered == pc \in {"loop", "done"}

\* C4: with a mesh geom that passes the visibility filter in the scene,
\* ray() signals "not implemented": the mesh is not skipped silently and no
\* ordinary (distance, id) answer is returned.
C4_MeshIsSignalled ==
  (Finished /\ \E i \in GeomIds : m.geom_type[i] = "MESH" /\ Eligible(i))
    => (pc = "raised" /\ err = "NotImplementedError")

\* C5: with an empty group mask a geom is handed to a solver iff its body is
\* not the excluded one, it is not fully transparent, and flg_static holds or
\* its body is not static; so when the nearest geom is on the excluded body
\* the nearest eligible one is returned.
C5_FilterRule ==
  (Len(arg.geomgroup) = 0 /\ Filtered) =>
    /\ \A i \in GeomIds : geom_filter[i] <=> Eligible(i)
    /\ Returned =>
         LET E == {i \in GeomIds : HasSolver(i) /\ Eligible(i)}
             H == {i \in E : ~IsInf(Alone(i))}
         IN /\ Dispatched = E
            /\ H # {} => /\ ret.id \in H
                         /\ \A j \in H : ~FLt(Alone(j), ret.dist)
            /\ H = {} => ret = NoHit

\* C5 witness: the nearest geom is on the excluded body and the other geom,
\* farther away, is returned.
C5_Witness ==
  /\ Returned
  /\ Len(arg.geomgroup) = 0
  /\ \E n \in GeomIds :
       /\ m.geom_bodyid[n] = arg.bodyexclude
       /\ HasSolver(n)
       /\ ret.id \in GeomIds \ {n}
       /\ FLt(Alone(n), ret.dist)

\* C6: with a mask of mjNGROUP entries the query completes without an
\* indexing failure whatever the group tags are (below 0, at or above
\* mjNGROUP), and a geom is eligible only if the mask entry of its group
\* clamped into 0..mjNGROUP-1 is enabled.
C6_GroupMaskClamped ==
  Len(arg.geomgroup) = mjNGROUP =>
    /\ pc # "raised"
    /\ Filtered => \A i \in GeomIds : geom_filter[i] <=> Eligible(i)

\* ---- degenerate inputs
ZeroVec == arg.vec = <<0, 0, 0>>
ZeroSize(i) ==
  \/ m.geom_type[i] \in {"SPHERE", "CAPSULE"} /\ m.geom_size[i][1] = 0
  \/ m.geom_type[i] = "BOX" /\ m.geom_size[i] = <<0, 0, 0>>
\* the line of the ray passes through the centre of geom i
ThroughCentre(i) == CrossI(FramePntI(i), FrameVecI(i)) = <<0, 0, 0>>

\* C7 as stated: a zero-length direction or a zero-size sphere, capsule or
\* box never raises and always gives the sentinel from the solver and
\* (-1, -1) from ray(), for every ray origin.  Read here on the rays that
\* do not point away from the primitive's centre, so that the negative
\* distances of C1 play no part.
NotLeaving(i) == DotI(FramePntI(i), FrameVecI(i)) <= 0
StillNoHit(i) ==
  \/ ZeroVec
  \/ ZeroSize(i) /\ (m.geom_type[i] = "BOX" => ~ThroughCentre(i))
C8_OwnFrame ==
  Returned =>
    /\ \A i \in GeomIds : geom_pnts[i] = FramePnt(i) /\ geom_vecs[i] = FrameVec(i)
    /\ \A k \in 1..Len(ids) : dists[k] = Alone(ids[k])

\* C8 witness: a turned geom is dispatched, and hit, after pnt and vec were
\* rebound by an earlier type.
C8_Witness ==
  /\ Returned
  /\ \E k \in 2..Len(ids) :
       /\ m.geom_type[ids[k]] # m.geom_type[ids[1]]
       /\ d.geom_xmat[ids[k]] = RotX
       /\ d.geom_xmat[ids[1]] = RotI
       /\ IsFin(dists[k])
  /\ pnt # <<VecF(arg.pnt)>>

\* ---- capsule
HitZ(p, v, x) == FAdd(p[3], FMul(x, v[3]))
\* the roots the capsule solver may return: the side root between the flat
\* sides, the top-cap roots in the upper hemisphere, the bottom-cap roots
\* in the lower one
CapsuleAccepted(size, p, v) ==
  LET t == CapRoots(size, p, v, 1)
      b == CapRoots(size, p, v, -1)
      Top(x) == IF FGe(HitZ(p, v, x), size[2]) THEN x ELSE PInf
      Bottom(x) == IF FLe(HitZ(p, v, x), FNeg(size[2])) THEN x ELSE PInf
  IN <<CapsuleSide(size, p, v), Top(t[1]), Top(t[2]), Bottom(b[1]), Bottom(b[2])>>
\* the ray runs along the local z axis from outside the near cap toward it
AlongAxis(i) ==
  LET p == FramePntI(i)
      v == FrameVecI(i)
      s == m.geom_size[i]
  IN /\ p[1] = 0 /\ p[2] = 0 /\ v[1] = 0 /\ v[2] = 0
     /\ AbsI(p[3]) > s[1] + s[2]
     /\ v[3] = -Sgn(p[3])
     /\ s[1] > 0

\* C9: the capsule distance is the side root unless a cap root in its own
\* outer hemisphere is strictly smaller; along the local z axis from
\* outside the near cap it is |origin.z| - h - r.
C9_CapsuleBest ==
  Returned =>
    \A k \in 1..Len(ids) :
      m.geom_type[ids[k]] = "CAPSULE" =>
        LET i == ids[k]
            size == VecF(m.geom_size[i])
            acc == CapsuleAccepted(size, FramePnt(i), FrameVec(i))
        IN /\ dists[k] = FMinSeq(acc)
           /\ AlongAxis(i) =>
                dists[k] = ToF(AbsI(FramePntI(i)[3]) - m.geom_size[i][2]
                               - m.geom_size[i][1])

\* C9 witness: a capsule with a cylinder part met along its axis from
\* outside the near cap.
C9_Witness ==
  /\ Returned
  /\ \E k \in 1..Len(ids) :
       /\ m.geom_type[ids[k]] = "CAPSULE"
       /\ AlongAxis(ids[k])
       /\ m.geom_size[ids[k]][2] > 0
       /\ ret.id = ids[k]

\* ---- ties
TypeRank(t) == CHOOSE k \in 1..Len(RAY_FUNC_ORDER) : RAY_FUNC_ORDER[k] = t
\* i comes before j in the concatenated dispatch order
Before(i, j) ==
  \/ TypeRank(m.geom_type[i]) < TypeRank(m.geom_type[j])
  \/ m.geom_type[i] = m.geom_type[j] /\ i < j

\* C10: among eligible geoms at exactly the minimum distance ray() returns
\* the first in dispatch order (plane, sphere, capsule, box, then ascending
\* id), which need not be the lowest id.
C10_TieBreak ==
  (Returned /\ ret.id # -1) =>
    \A j \in Candidates \ {ret.id} : Alone(j) = ret.dist => Before(ret.id, j)

\* C10 witness: two geoms tie for the minimum and the one of the higher id
\* is returned.
C10_Witness ==
  /\ Returned
  /\ ret.id \in GeomIds
  /\ \E j \in Candidates : j < ret.id /\ Alone(j) = ret.dist
====
